---------------------------- MODULE Spec2Model ----------------------------
(***************************************************************************)
(* Air-quality dashboard: loader, filter engine, aggregator, metric        *)
(* classifier and the Streamlit session script that drives them.           *)
(*                                                                         *)
(* A table (pandas DataFrame) is a sequence of rows; a row is a record     *)
(*   [date, location, lat, lon, parameter, value, unit].                   *)
(* Timestamps are integers counted in ticks, TicksPerDay ticks to a day:   *)
(* tick 0 of a day is 00:00:00 and tick TicksPerDay-1 is 23:59:59.         *)
(* NaT is the missing timestamp and NaN the missing cell; as in pandas,    *)
(* every ordering comparison with NaT is false.                            *)
(***************************************************************************)
EXTENDS Integers, Sequences, FiniteSets, TLC

VARIABLES
    df,      \* the table handed to the function under call
    call,    \* the last call made: [fn |-> name, ...arguments]
    ret,     \* what that call returned
    source,  \* the CSV file: [ok |-> readable, rows |-> its records]
    clock,   \* wall-clock time in seconds
    cache,   \* the st.cache_data entry of load_data
    reads,   \* how many times the source file has been read
    heap,    \* the DataFrame objects of the running script, by identity
    pc,      \* position of the script run
    env,     \* the script's table variables, as heap identities (0: unbound)
    sel,     \* the sidebar selections
    stats,   \* the key statistics shown
    page     \* the elements shown on the page

fvars == <<df, call, ret>>
svars == <<source, clock, cache, reads, heap, pc, env, sel, stats, page>>
vars == <<df, call, ret, source, clock, cache, reads, heap, pc, env, sel, stats, page>>

-----------------------------------------------------------------------------
(* Bounds *)
TicksPerDay == 2
MaxDay == 2
MaxRowsF == 2

NaT == -1
\* the missing cell of a text column and of a numeric column
NaN == "NaN"
NaNf == -99999

Locations == {"L1", "L2"}

Row(d, l, la, lo, p, v, u) ==
    [date |-> d, location |-> l, lat |-> la, lon |-> lo,
     parameter |-> p, value |-> v, unit |-> u]

SeqUpTo(S, n) == UNION {[1..k -> S] : k \in 0..n}

Range(s) == {s[i] : i \in DOMAIN s}

NoCall == [fn |-> "none"]

\* a table argument: None, or the columns present and the rows
NoneTable == [isnone |-> TRUE, columns |-> {}, rows |-> <<>>]
Table(cs, rs) == [isnone |-> FALSE, columns |-> cs, rows |-> rs]

AllColumns == {"date", "location", "lat", "lon", "parameter", "value", "unit"}

\* the session script is not running while single functions are called
NoEntry == [present |-> FALSE, value |-> NoneTable, stored_at |-> 0]
NoEnv == [df |-> 0, filtered_df |-> 0, parameter_filtered_df |-> 0,
          correlation_df |-> 0, map_df |-> 0]
NoSel == [start_date |-> 0, end_date |-> 0, selected_locations |-> {},
          selected_parameter |-> "", correlation_parameter |-> ""]
NoStats == [shown |-> FALSE]

IdleSession ==
    /\ source = [ok |-> FALSE, rows |-> <<>>]
    /\ clock = 0
    /\ cache = NoEntry
    /\ reads = 0
    /\ heap = <<>>
    /\ pc = "off"
    /\ env = NoEnv
    /\ sel = NoSel
    /\ stats = NoStats
    /\ page = {}

-----------------------------------------------------------------------------
(* data_processor.py : the filter engine *)

\* A date argument is a calendar date [dt |-> FALSE, t |-> day] or a
\* datetime [dt |-> TRUE, t |-> ticks].
ADate(d) == [dt |-> FALSE, t |-> d]
ADatetime(t) == [dt |-> TRUE, t |-> t]

\* pd.to_datetime on a date gives that day's midnight; a datetime is kept.
to_datetime(x) == IF x.dt THEN x.t ELSE x.t * TicksPerDay

Timedelta_days(n) == n * TicksPerDay

\* Series >= Timestamp and Series < Timestamp, elementwise, NaT -> False
ge_ts(t, s) == t # NaT /\ t >= s
lt_ts(t, s) == t # NaT /\ t < s

\* faulty variant: the upper bound taken as inclusive
date_mask_closed_m(t, start_ts, end_ts) == ge_ts(t, start_ts) /\ (t # NaT /\ t <= end_ts)

date_mask(t, start_ts, end_ts) == ge_ts(t, start_ts) /\ lt_ts(t, end_ts)

filter_data_by_date_range(d, start_date, end_date) ==
    LET start_ts == to_datetime(start_date)
        end_ts == to_datetime(end_date) + Timedelta_days(1)
    IN  SelectSeq(d, LAMBDA r : date_mask(r.date, start_ts, end_ts))

\* faulty variant: the filter is skipped when no row matches
filter_data_by_location_no_match_m(d, locations) ==
    IF \A i \in DOMAIN d : d[i].location \notin locations THEN d
    ELSE SelectSeq(d, LAMBDA r : r.location \in locations)

\* faulty variant: an empty selection selects no row
filter_data_by_location_no_rows_m(d, locations) ==
    SelectSeq(d, LAMBDA r : r.location \in locations)

\* locations is a list; only its emptiness and membership are used
filter_data_by_location(d, locations) ==
    IF locations = {} THEN d
    ELSE SelectSeq(d, LAMBDA r : r.location \in locations)

\* parameters is a str (field s) or a list (field l), told apart by isinstance
PStr(p) == [str |-> TRUE, s |-> p, l |-> {}]
PList(ps) == [str |-> FALSE, s |-> "", l |-> ps]

filter_data_by_parameter(d, parameters) ==
    LET plist == IF parameters.str THEN {parameters.s} ELSE parameters.l
    IN  SelectSeq(d, LAMBDA r : r.parameter \in plist)

-----------------------------------------------------------------------------
(* Filter calls on drawn tables *)

ParamsF == {"pm25", "o3"}
StampsF == 0 .. ((MaxDay + 1) * TicksPerDay - 1)
RowsF == {Row(d, l, 1, 1, p, 10, "u") :
             d \in StampsF \cup {NaT}, l \in Locations, p \in ParamsF}
TablesF == SeqUpTo(RowsF, MaxRowsF)

DateArgs == {ADate(d) : d \in 0..MaxDay}
            \cup {ADatetime(t) : t \in {s \in StampsF : s % TicksPerDay # 0 /\ s < MaxDay * TicksPerDay}}

InitFilter ==
    /\ df \in TablesF
    /\ call = NoCall
    /\ ret = <<>>
    /\ IdleSession

CallFilterDate ==
    \E s \in DateArgs, e \in DateArgs :
        /\ call' = [fn |-> "filter_data_by_date_range", start |-> s, end |-> e]
        /\ ret' = filter_data_by_date_range(df, s, e)
        /\ UNCHANGED <<df, svars>>

CallFilterLocation ==
    \E ls \in SUBSET Locations :
        /\ call' = [fn |-> "filter_data_by_location", locations |-> ls]
        /\ ret' = filter_data_by_location(df, ls)
        /\ UNCHANGED <<df, svars>>

CallFilterParameter ==
    \E ps \in {PStr(p) : p \in ParamsF} \cup {PList(s) : s \in SUBSET ParamsF} :
        /\ call' = [fn |-> "filter_data_by_parameter", parameters |-> ps]
        /\ ret' = filter_data_by_parameter(df, ps)
        /\ UNCHANGED <<df, svars>>

NextFilter == CallFilterDate \/ CallFilterLocation \/ CallFilterParameter

SpecFilter == InitFilter /\ [][NextFilter]_vars

-----------------------------------------------------------------------------
(* C1 *)

IsDateRangeCall ==
    /\ call.fn = "filter_data_by_date_range"
    /\ ~call.start.dt /\ ~call.end.dt
    /\ call.start.t <= call.end.t

\* the positions of d whose timestamp lies in [lo, hi)
KeptIdx(d, lo, hi) == {i \in DOMAIN d : d[i].date # NaT /\ lo <= d[i].date /\ d[i].date < hi}

\* out lists exactly the rows of d at the positions in K, in order
IsRestriction(out, d, K) ==
    /\ Len(out) = Cardinality(K)
    /\ \A i \in K : out[Cardinality({j \in K : j <= i})] = d[i]

\* C1: for calendar dates start <= end, filter_data_by_date_range returns
\* exactly the rows stamped in [start 00:00, (end + 1 day) 00:00): a row at
\* end 23:59:59 is kept and a row at (end + 1 day) 00:00:00 is removed.
C1_DateRangeWindow ==
    IsDateRangeCall =>
        LET lo == call.start.t * TicksPerDay
            hi == (call.end.t + 1) * TicksPerDay
        IN  /\ IsRestriction(ret, df, KeptIdx(df, lo, hi))
            /\ \A i \in DOMAIN df :
                  /\ df[i].date = hi - 1 => df[i] \in Range(ret)
                  /\ df[i].date = hi => df[i] \notin Range(ret)

C1_Witness ==
    /\ IsDateRangeCall
    /\ \E i, j \in DOMAIN df :
          /\ df[i].date = (call.end.t + 1) * TicksPerDay - 1
          /\ df[j].date = (call.end.t + 1) * TicksPerDay
    /\ Len(ret) = 1

-----------------------------------------------------------------------------
(* data_processor.py : the aggregator *)

MaxRowsA == 3

\* sorted(Locations): groupby emits its groups in ascending key order
LocOrder == <<"L1", "L2">>

\* faulty variant: the parameter selection forgotten
param_rows_all_m(d, parameter) == d

\* df[df['parameter'] == parameter].copy()
param_rows(d, parameter) == SelectSeq(d, LAMBDA r : r.parameter = parameter)

RECURSIVE SumSeq(_)
SumSeq(s) == IF s = <<>> THEN 0 ELSE Head(s) + SumSeq(Tail(s))

\* the mean of a non-empty column, kept as the exact fraction num/den
mean(vals) == [num |-> SumSeq(vals), den |-> Len(vals)]
min(vals) == CHOOSE v \in Range(vals) : \A w \in Range(vals) : v <= w
max(vals) == CHOOSE v \in Range(vals) : \A w \in Range(vals) : v >= w

column_value(d) == [i \in DOMAIN d |-> d[i].value]

aggregate_data_for_comparison(d, parameter) ==
    LET param_df == param_rows(d, parameter)
        keys == SelectSeq(LocOrder, LAMBDA l : \E i \in DOMAIN param_df : param_df[i].location = l)
        vals(l) == column_value(SelectSeq(param_df, LAMBDA r : r.location = l))
    IN  [k \in DOMAIN keys |->
            [location |-> keys[k], mean |-> mean(vals(keys[k])),
             min |-> min(vals(keys[k])), max |-> max(vals(keys[k]))]]

\* faulty variant: the join made on the date alone
merge_key_date_only_m(l, r) == l.date = r.date

\* on=['date', 'location']; pandas merge matches a null key with a null key
merge_key(l, r) == l.date = r.date /\ l.location = r.location

\* the right rows matching one left row, in right order
merge_row(l, right) ==
    LET m == SelectSeq(right, LAMBDA r : merge_key(l, r))
    IN  [j \in DOMAIN m |-> [date |-> l.date, location |-> l.location, x |-> l.x, y |-> m[j].y]]

\* pd.merge(left, right, how='inner'): left order, then right order
RECURSIVE merge_inner(_, _)
merge_inner(left, right) ==
    IF left = <<>> THEN <<>>
    ELSE merge_row(Head(left), right) \o merge_inner(Tail(left), right)

\* the result columns named param1 and param2 are the fields x and y
prepare_correlation_data(d, param1, param2) ==
    LET p1 == param_rows(d, param1)
        p2 == param_rows(d, param2)
        df1 == [i \in DOMAIN p1 |-> [date |-> p1[i].date, location |-> p1[i].location, x |-> p1[i].value]]
        df2 == [i \in DOMAIN p2 |-> [date |-> p2[i].date, location |-> p2[i].location, y |-> p2[i].value]]
    IN  merge_inner(df1, df2)

-----------------------------------------------------------------------------
(* Aggregation calls on drawn tables *)

ParamsA == {"pm25", "o3"}
ValuesA == {10, 20, 30}
RowsCmp == {Row(0, l, 1, 1, p, v, "u") : l \in Locations, p \in ParamsA, v \in ValuesA}

InitCompare ==
    /\ df \in SeqUpTo(RowsCmp, MaxRowsA)
    /\ call = NoCall
    /\ ret = <<>>
    /\ IdleSession

CallAggregateComparison ==
    \E p \in ParamsA :
        /\ call' = [fn |-> "aggregate_data_for_comparison", parameter |-> p]
        /\ ret' = aggregate_data_for_comparison(df, p)
        /\ UNCHANGED <<df, svars>>

NextCompare == CallAggregateComparison

SpecCompare == InitCompare /\ [][NextCompare]_vars

DatesCorr == {0, TicksPerDay}
ValuesCorr == {10, 20}
RowsCorr == {Row(d, l, 1, 1, p, v, "u") :
                d \in DatesCorr, l \in Locations, p \in ParamsA, v \in ValuesCorr}

InitCorrelate ==
    /\ df \in SeqUpTo(RowsCorr, MaxRowsA)
    /\ call = NoCall
    /\ ret = <<>>
    /\ IdleSession

CallCorrelate ==
    \E p1 \in ParamsA, p2 \in ParamsA :
        /\ p1 # p2
        /\ call' = [fn |-> "prepare_correlation_data", param1 |-> p1, param2 |-> p2]
        /\ ret' = prepare_correlation_data(df, p1, p2)
        /\ UNCHANGED <<df, svars>>

NextCorrelate == CallCorrelate

SpecCorrelate == InitCorrelate /\ [][NextCorrelate]_vars

-----------------------------------------------------------------------------
(* C2, C3 *)

IsCorrelateCall == call.fn = "prepare_correlation_data"

IdxOf(d, p) == {i \in DOMAIN d : d[i].parameter = p}
KeyAt(d, i) == <<d[i].date, d[i].location>>
KeysOf(d, p) == {KeyAt(d, i) : i \in IdxOf(d, p)}
UniqueKeys(d, p) == Cardinality(KeysOf(d, p)) = Cardinality(IdxOf(d, p))
Least(a, b) == IF a <= b THEN a ELSE b

\* C2 as stated: the result of correlate never has more rows than the
\* smaller of the two parameter subsets.
C2_AtMostMin ==
    IsCorrelateCall =>
        Len(ret) <= Least(Cardinality(IdxOf(df, call.param1)),
                          Cardinality(IdxOf(df, call.param2)))

\* C2 amended: correlate returns at most countA * countB rows, and at most
\* min(countA, countB) rows when the (date, location) keys are unique
\* within each of the two parameter subsets.
C2_AtMostMinUniqueKeys ==
    IsCorrelateCall =>
        LET countA == Cardinality(IdxOf(df, call.param1))
            countB == Cardinality(IdxOf(df, call.param2))
        IN  /\ Len(ret) <= countA * countB
            /\ (UniqueKeys(df, call.param1) /\ UniqueKeys(df, call.param2))
                  => Len(ret) <= Least(countA, countB)

C2_Witness ==
    /\ IsCorrelateCall
    /\ UniqueKeys(df, call.param1) /\ UniqueKeys(df, call.param2)
    /\ Cardinality(IdxOf(df, call.param1)) = 2
    /\ Cardinality(IdxOf(df, call.param2)) = 1
    /\ Len(ret) = 1

\* C3: correlate is an inner join on (date, location): every result row
\* pairs a value of param1 with a value of param2 from rows of one date
\* and location, the result is empty when the subsets share no key, and
\* with unique keys that all overlap it has exactly min(|A|, |B|) rows.
C3_InnerJoin ==
    IsCorrelateCall =>
        LET A == IdxOf(df, call.param1)
            B == IdxOf(df, call.param2)
            KA == KeysOf(df, call.param1)
            KB == KeysOf(df, call.param2)
        IN  /\ \A k \in DOMAIN ret :
                  \E i \in A, j \in B :
                      /\ KeyAt(df, i) = <<ret[k].date, ret[k].location>>
                      /\ KeyAt(df, j) = <<ret[k].date, ret[k].location>>
                      /\ ret[k].x = df[i].value
                      /\ ret[k].y = df[j].value
            /\ KA \cap KB = {} => ret = <<>>
            /\ (/\ UniqueKeys(df, call.param1) /\ UniqueKeys(df, call.param2)
                /\ (KA \subseteq KB \/ KB \subseteq KA))
                  => Len(ret) = Least(Cardinality(A), Cardinality(B))

C3_Witness ==
    /\ IsCorrelateCall
    /\ UniqueKeys(df, call.param1) /\ UniqueKeys(df, call.param2)
    /\ KeysOf(df, call.param1) \subseteq KeysOf(df, call.param2)
    /\ Cardinality(IdxOf(df, call.param2)) = 2
    /\ Len(ret) = 1
    /\ ret[1].x # ret[1].y

-----------------------------------------------------------------------------
(* C7 *)

IsComparisonCall == call.fn = "aggregate_data_for_comparison"

IdxAt(d, p, l) == {i \in DOMAIN d : d[i].parameter = p /\ d[i].location = l}

RECURSIVE SumIdx(_, _)
SumIdx(d, I) ==
    IF I = {} THEN 0
    ELSE LET i == CHOOSE j \in I : TRUE IN d[i].value + SumIdx(d, I \ {i})

\* C7: aggregate_data_for_comparison emits exactly one group per location
\* that has a row of the parameter and none for any other location; each
\* group's mean, min and max are those of that location's values of that
\* parameter only.
C7_ComparisonGroups ==
    IsComparisonCall =>
        LET p == call.parameter
            locs == {l \in Locations : IdxAt(df, p, l) # {}}
        IN  /\ {ret[k].location : k \in DOMAIN ret} = locs
            /\ Len(ret) = Cardinality(locs)
            /\ \A k \in DOMAIN ret :
                  LET I == IdxAt(df, p, ret[k].location)
                  IN  /\ ret[k].mean.den = Cardinality(I)
                      /\ ret[k].mean.num = SumIdx(df, I)
                      /\ \E i \in I : df[i].value = ret[k].min
                      /\ \E i \in I : df[i].value = ret[k].max
                      /\ \A i \in I : ret[k].min <= df[i].value /\ df[i].value <= ret[k].max

\* values [10, 20, 30] at one location give one group: mean 20, min 10, max 30
C7_Witness ==
    /\ IsComparisonCall
    /\ Len(df) = 3
    /\ \A i \in DOMAIN df : df[i].parameter = call.parameter /\ df[i].location = "L1"
    /\ <<df[1].value, df[2].value, df[3].value>> = <<10, 20, 30>>
    /\ Len(ret) = 1
    /\ ret[1].mean.num = 20 * ret[1].mean.den
    /\ ret[1].min = 10 /\ ret[1].max = 30

-----------------------------------------------------------------------------
(* utils.py : the metric classifier *)

\* Thresholds and classified values are counted in tenths of the unit
\* (35.4 is 354), so that every breakpoint is an integer.
parameter_info ==
    [pm25 |-> [title |-> "PM2.5", unit |-> "ug/m3",
               description |-> "Fine particulate matter with diameter less than 2.5 micrometers",
               threshold |-> [good |-> 120, moderate |-> 354, unhealthy |-> 554, very_unhealthy |-> 1504]],
     pm1 |-> [title |-> "PM1", unit |-> "ug/m3",
              description |-> "Particulate matter with diameter less than 1 micrometer",
              threshold |-> [good |-> 100, moderate |-> 250, unhealthy |-> 500, very_unhealthy |-> 1000]],
     pm10 |-> [title |-> "PM10", unit |-> "ug/m3",
               description |-> "Particulate matter with diameter less than 10 micrometers",
               threshold |-> [good |-> 540, moderate |-> 1540, unhealthy |-> 2540, very_unhealthy |-> 3540]],
     co |-> [title |-> "Carbon Monoxide", unit |-> "ppb",
             description |-> "Carbon monoxide concentration",
             threshold |-> [good |-> 44, moderate |-> 94, unhealthy |-> 124, very_unhealthy |-> 154]],
     no |-> [title |-> "Nitric Oxide", unit |-> "ppb",
             description |-> "Nitric oxide concentration",
             threshold |-> [good |-> 400, moderate |-> 800, unhealthy |-> 1800, very_unhealthy |-> 2800]],
     no2 |-> [title |-> "Nitrogen Dioxide", unit |-> "ppb",
              description |-> "Nitrogen dioxide concentration",
              threshold |-> [good |-> 530, moderate |-> 1000, unhealthy |-> 3600, very_unhealthy |-> 6490]],
     o3 |-> [title |-> "Ozone", unit |-> "ug/m3",
             description |-> "Ozone concentration",
             threshold |-> [good |-> 540, moderate |-> 700, unhealthy |-> 850, very_unhealthy |-> 1050]],
     so2 |-> [title |-> "Sulfur Dioxide", unit |-> "ppb",
              description |-> "Sulfur dioxide concentration",
              threshold |-> [good |-> 350, moderate |-> 750, unhealthy |-> 1850, very_unhealthy |-> 3040]],
     temperature |-> [title |-> "Temperature", unit |-> "degC",
                      description |-> "Ambient temperature",
                      threshold |-> [cold |-> 0, cool |-> 150, moderate |-> 250, hot |-> 300]],
     pressure |-> [title |-> "Atmospheric Pressure", unit |-> "hPa",
                   description |-> "Atmospheric pressure",
                   threshold |-> [low |-> 9800, normal |-> 10130, high |-> 10300]],
     relativehumidity |-> [title |-> "Relative Humidity", unit |-> "%",
                           description |-> "Relative humidity",
                           threshold |-> [dry |-> 300, comfortable |-> 500, humid |-> 700]],
     wind_speed |-> [title |-> "Wind Speed", unit |-> "m/s",
                     description |-> "Wind speed",
                     threshold |-> [calm |-> 10, light |-> 30, moderate |-> 70, strong |-> 100]],
     wind_direction |-> [title |-> "Wind Direction", unit |-> "deg",
                         description |-> "Wind direction in degrees",
                         threshold |-> <<>>],
     um003 |-> [title |-> "Ultrafine Particles", unit |-> "count/cm3",
                description |-> "Ultrafine particles concentration",
                threshold |-> [low |-> 10000, moderate |-> 100000, high |-> 500000]]]

\* An identifier outside the static table is spelled out character by
\* character, so that str.replace and str.title can act on it.
Spelling ==
    [unknown_param |-> <<"u","n","k","n","o","w","n","_","p","a","r","a","m">>,
     nox |-> <<"n","o","x">>,
     pm2_5B |-> <<"p","m","2","_","5","B">>,
     bc__aB |-> <<"b","c","_","_","a","B">>]

Lower == <<"a","b","c","k","m","n","o","p","r","u","w","x">>
Upper == <<"A","B","C","K","M","N","O","P","R","U","W","X">>
IsLower(c) == \E i \in DOMAIN Lower : Lower[i] = c
IsUpper(c) == \E i \in DOMAIN Upper : Upper[i] = c
ToUpper(c) == Upper[CHOOSE i \in DOMAIN Lower : Lower[i] = c]
ToLower(c) == Lower[CHOOSE i \in DOMAIN Upper : Upper[i] = c]

\* str.replace('_', ' ')
replace_underscore(s) == [i \in DOMAIN s |-> IF s[i] = "_" THEN " " ELSE s[i]]

\* str.title(): a cased character is upper-cased when the character before
\* it is not cased and lower-cased when it is; the others are kept
str_title(s) ==
    [i \in DOMAIN s |->
        LET previous_is_cased == i > 1 /\ (IsLower(s[i-1]) \/ IsUpper(s[i-1]))
        IN  IF IsLower(s[i]) THEN (IF previous_is_cased THEN s[i] ELSE ToUpper(s[i]))
            ELSE IF IsUpper(s[i]) THEN (IF previous_is_cased THEN ToLower(s[i]) ELSE s[i])
            ELSE s[i]]

\* Series.unique(): the distinct cells in order of first appearance, NaN included
RECURSIVE unique(_)
unique(s) ==
    IF s = <<>> THEN <<>>
    ELSE LET u == unique(SubSeq(s, 1, Len(s) - 1))
             x == s[Len(s)]
         IN  IF x \in Range(u) THEN u ELSE Append(u, x)

get_parameter_info(parameter, d) ==
    IF parameter \notin DOMAIN parameter_info
    THEN LET humanized == str_title(replace_underscore(Spelling[parameter]))
             default_info ==
                 [title |-> humanized, unit |-> "",
                  description |-> humanized \o <<" ","m","e","a","s","u","r","e","m","e","n","t">>,
                  threshold |-> <<>>]
         IN  IF ~d.isnone
             THEN IF {"parameter", "unit"} \subseteq d.columns
                  THEN LET matching == SelectSeq(d.rows, LAMBDA r : r.parameter = parameter)
                           unit_data == unique([i \in DOMAIN matching |-> matching[i].unit])
                       IN  IF Len(unit_data) > 0
                           THEN [default_info EXCEPT !.unit = unit_data[1]]
                           ELSE default_info
                  ELSE default_info    \* KeyError swallowed by the bare except
             ELSE default_info
    ELSE parameter_info[parameter]

\* dict.get(key, default)
dict_get(d, key, default) == IF key \in DOMAIN d THEN d[key] ELSE default

\* faulty variant: the default bucket mislabelled
default_level_good_m == <<"Good", "#00E400">>

default_level == <<"Normal", "#00FF00">>

classify_aqi_level(value, parameter) ==
    LET param_info == get_parameter_info(parameter, NoneTable)
        thresholds == param_info.threshold
    IN  IF parameter \in {"pm25", "pm10", "co", "no2", "o3", "so2"}
        THEN IF value <= dict_get(thresholds, "good", 0) THEN <<"Good", "#00E400">>
             ELSE IF value <= dict_get(thresholds, "moderate", 0) THEN <<"Moderate", "#FFFF00">>
             ELSE IF value <= dict_get(thresholds, "unhealthy", 0)
                  THEN <<"Unhealthy for Sensitive Groups", "#FF7E00">>
             ELSE IF value <= dict_get(thresholds, "very_unhealthy", 0) THEN <<"Unhealthy", "#FF0000">>
             ELSE <<"Hazardous", "#99004C">>
        ELSE IF parameter = "temperature"
        THEN IF value <= dict_get(thresholds, "cold", 0) THEN <<"Cold", "#0000FF">>
             ELSE IF value <= dict_get(thresholds, "cool", 0) THEN <<"Cool", "#00FFFF">>
             ELSE IF value <= dict_get(thresholds, "moderate", 0) THEN <<"Moderate", "#00FF00">>
             ELSE IF value <= dict_get(thresholds, "hot", 0) THEN <<"Warm", "#FFFF00">>
             ELSE <<"Hot", "#FF0000">>
        ELSE IF parameter = "relativehumidity"
        THEN IF value <= dict_get(thresholds, "dry", 0) THEN <<"Dry", "#FFA500">>
             ELSE IF value <= dict_get(thresholds, "comfortable", 0) THEN <<"Comfortable", "#00FF00">>
             ELSE <<"Humid", "#0000FF">>
        ELSE default_level

-----------------------------------------------------------------------------
(* Classifier calls *)

KnownIds == DOMAIN parameter_info
UnknownIds == DOMAIN Spelling

Breakpoints(p) == {parameter_info[p].threshold[k] : k \in DOMAIN parameter_info[p].threshold}
AllBreakpoints == UNION {Breakpoints(p) : p \in KnownIds}

\* every breakpoint, its two neighbours, a negative value and 1000.0
ValuesC == {-10, 10000} \cup UNION {{b - 1, b, b + 1} : b \in AllBreakpoints}

InitClassify ==
    /\ df = NoneTable
    /\ call = NoCall
    /\ ret = <<>>
    /\ IdleSession

CallClassify ==
    \E v \in ValuesC, p \in KnownIds \cup UnknownIds :
        /\ call' = [fn |-> "classify_aqi_level", value |-> v, parameter |-> p]
        /\ ret' = classify_aqi_level(v, p)
        /\ UNCHANGED <<df, svars>>

NextClassify == CallClassify

SpecClassify == InitClassify /\ [][NextClassify]_vars

MaxRowsI == 2

IdsI == {"unknown_param", "nox"}
UnitsI == {NaN, "ppm", "mg"}
RowsI == {Row(0, "L1", 1, 1, p, 10, u) : p \in IdsI, u \in UnitsI}
\* the loaded columns, a source without a unit column, and the map table
\* built by app.py, which has no parameter and no unit column
ColumnSetsI == {AllColumns, AllColumns \ {"unit"}, {"location", "lat", "lon", "value"}}

InitInfo ==
    /\ df \in {Table(cs, rs) : cs \in ColumnSetsI, rs \in SeqUpTo(RowsI, MaxRowsI)}
    /\ call = NoCall
    /\ ret = <<>>
    /\ IdleSession

CallParameterInfo ==
    \E p \in KnownIds \cup UnknownIds :
        /\ call' = [fn |-> "get_parameter_info", parameter |-> p, table |-> TRUE]
        /\ ret' = get_parameter_info(p, df)
        /\ UNCHANGED <<df, svars>>

CallParameterInfoNoTable ==
    \E p \in KnownIds \cup UnknownIds :
        /\ call' = [fn |-> "get_parameter_info", parameter |-> p, table |-> FALSE]
        /\ ret' = get_parameter_info(p, NoneTable)
        /\ UNCHANGED <<df, svars>>

NextInfo == CallParameterInfo \/ CallParameterInfoNoTable

SpecInfo == InitInfo /\ [][NextInfo]_vars

-----------------------------------------------------------------------------
(* C4, C5 *)

IsClassifyCall == call.fn = "classify_aqi_level"

PollutantKeys == {"good", "moderate", "unhealthy", "very_unhealthy"}
HasPollutantBreakpoints(p) ==
    p \in KnownIds /\ PollutantKeys \subseteq DOMAIN parameter_info[p].threshold

\* C4: for every parameter whose metadata defines the breakpoints good /
\* moderate / unhealthy / very_unhealthy, classify returns the first level
\* whose breakpoint is >= value, and Hazardous above all four; 12 ug/m3 of
\* pm25 is Good and 1000 ug/m3 is Hazardous.
C4_PollutantLadder ==
    (IsClassifyCall /\ HasPollutantBreakpoints(call.parameter)) =>
        LET th == parameter_info[call.parameter].threshold
            v == call.value
        IN  /\ ret[1] = (IF v <= th.good THEN "Good"
                         ELSE IF v <= th.moderate THEN "Moderate"
                         ELSE IF v <= th.unhealthy THEN "Unhealthy for Sensitive Groups"
                         ELSE IF v <= th.very_unhealthy THEN "Unhealthy"
                         ELSE "Hazardous")
            /\ (call.parameter = "pm25" /\ v = 120) => ret[1] = "Good"
            /\ (call.parameter = "pm25" /\ v = 10000) => ret[1] = "Hazardous"

ThresholdsOf(p) == IF p \in KnownIds THEN parameter_info[p].threshold ELSE <<>>
ExceedsAll(v, p) ==
    /\ DOMAIN ThresholdsOf(p) # {}
    /\ \A k \in DOMAIN ThresholdsOf(p) : v > ThresholdsOf(p)[k]

\* C5 as stated: classify returns Normal for every parameter without
\* thresholds and for every value above all breakpoints of its parameter.
C5_NormalFallback ==
    (IsClassifyCall /\ (DOMAIN ThresholdsOf(call.parameter) = {}
                        \/ ExceedsAll(call.value, call.parameter)))
        => ret[1] = "Normal"

\* C5 amended: classify returns Normal for every parameter without
\* thresholds; a value above all breakpoints of its parameter gets
\* Hazardous for pm25, pm10, co, no2, o3 and so2, Hot for temperature,
\* Humid for relativehumidity, and Normal for every other parameter.
C5_NormalOnlyWithoutScale ==
    IsClassifyCall =>
        /\ DOMAIN ThresholdsOf(call.parameter) = {} => ret[1] = "Normal"
        /\ ExceedsAll(call.value, call.parameter) =>
              ret[1] = (IF call.parameter \in {"pm25", "pm10", "co", "no2", "o3", "so2"}
                        THEN "Hazardous"
                        ELSE IF call.parameter = "temperature" THEN "Hot"
                        ELSE IF call.parameter = "relativehumidity" THEN "Humid"
                        ELSE "Normal")

C5_Witness ==
    /\ IsClassifyCall
    /\ call.parameter = "wind_direction"
    /\ DOMAIN ThresholdsOf(call.parameter) = {}
    /\ ret = <<"Normal", "#00FF00">>

-----------------------------------------------------------------------------
(* C9 *)

IsUnknownInfoCall == call.fn = "get_parameter_info" /\ call.parameter \in UnknownIds

\* the non-null units of the rows of t with parameter p, by position
NonNullUnitIdx(t, p) == {i \in DOMAIN t.rows : t.rows[i].parameter = p /\ t.rows[i].unit # NaN}

FirstNonNullUnit(t, p) ==
    IF t.isnone \/ ~({"parameter", "unit"} \subseteq t.columns) \/ NonNullUnitIdx(t, p) = {}
    THEN ""
    ELSE t.rows[CHOOSE i \in NonNullUnitIdx(t, p) : \A j \in NonNullUnitIdx(t, p) : i <= j].unit

\* C9: for an identifier absent from the static table get_parameter_info
\* returns the humanized title, empty thresholds, and as unit the first
\* non-null unit of that identifier's rows in the supplied table, or the
\* empty unit when there is no table, no unit column or no such row.
C9_FallbackInfo ==
    IsUnknownInfoCall =>
        /\ call.parameter = "unknown_param" =>
               ret.title = <<"U","n","k","n","o","w","n"," ","P","a","r","a","m">>
        /\ \A i \in DOMAIN ret.title : ret.title[i] # "_"
        /\ DOMAIN ret.threshold = {}
        /\ ret.unit = FirstNonNullUnit(IF call.table THEN df ELSE NoneTable, call.parameter)

-----------------------------------------------------------------------------
(* data_processor.py : the loader *)

MaxRowsL == 2

\* A date cell of the CSV: a timestamp text, an empty cell, or text that
\* is no timestamp.
TsCell(day, tick) == [kind |-> "ts", day |-> day, tick |-> tick]
NaCell == [kind |-> "na", day |-> 0, tick |-> 0]
BadCell == [kind |-> "bad", day |-> 0, tick |-> 0]

\* pd.to_datetime on one cell: parses the text, maps the empty cell to NaT
parse_date(c) == IF c.kind = "na" THEN NaT ELSE c.day * TicksPerDay + c.tick

\* faulty variant: only the value column looked at
notna_value_only_m(r) == r.value # NaNf

\* dropna(subset=['value', 'lat', 'lon']) keeps the rows with all three
notna_subset(r) == r.value # NaNf /\ r.lat # NaNf /\ r.lon # NaNf

\* read_csv raises on an unreadable file and to_datetime on an unparsable
\* cell; otherwise the parsed rows with value, lat and lon present
load_and_process_data(file) ==
    IF ~file.ok \/ \E i \in DOMAIN file.rows : file.rows[i].date.kind = "bad"
    THEN [raised |-> TRUE, table |-> <<>>]
    ELSE LET parsed == [i \in DOMAIN file.rows |->
                           [file.rows[i] EXCEPT !.date = parse_date(file.rows[i].date)]]
         IN  [raised |-> FALSE, table |-> SelectSeq(parsed, notna_subset)]

\* app.py load_data: the exception becomes an error message and None
load_data(file) ==
    LET r == load_and_process_data(file)
    IN  IF r.raised THEN NoneTable ELSE Table(AllColumns, r.table)

\* get_unique_values(df, column), as a set
unique_locations(d) == {d[i].location : i \in DOMAIN d}
unique_parameters(d) == {d[i].parameter : i \in DOMAIN d}

\* pd.to_datetime(df['date']).min().date() and .max().date(): NaT is skipped
ValidDates(d) == {d[i].date : i \in DOMAIN d} \ {NaT}
min_date(d) == (CHOOSE t \in ValidDates(d) : \A u \in ValidDates(d) : t <= u) \div TicksPerDay
max_date(d) == (CHOOSE t \in ValidDates(d) : \A u \in ValidDates(d) : t >= u) \div TicksPerDay

\* app.py lines 104-108 with the given selections
filter_chain(d, start, end, locations, parameters) ==
    LET by_date == filter_data_by_date_range(d, ADate(start), ADate(end))
        by_location == filter_data_by_location(by_date, locations)
    IN  filter_data_by_parameter(by_location, parameters)

-----------------------------------------------------------------------------
(* Loading drawn CSV files, then filtering with the widest selections *)

CellsL == {TsCell(0, TicksPerDay - 1), TsCell(1, 0)}
RowsL == {Row(c, l, la, lo, p, v, "u") :
             c \in CellsL, l \in Locations, p \in ParamsF,
             v \in {10}, la \in {1}, lo \in {1}}
         \cup {Row(c, l, 1, 1, p, NaNf, "u") : c \in CellsL, l \in Locations, p \in ParamsF}
         \cup {Row(c, l, NaNf, 1, p, 10, "u") : c \in CellsL, l \in Locations, p \in ParamsF}
         \cup {Row(c, l, 1, NaNf, p, 10, "u") : c \in CellsL, l \in Locations, p \in ParamsF}
         \cup {Row(c, l, 1, 1, p, 10, "u") : c \in {NaCell, BadCell}, l \in Locations, p \in ParamsF}

InitLoad ==
    /\ df = <<>>
    /\ call = NoCall
    /\ ret = <<>>
    /\ source \in {[ok |-> TRUE, rows |-> rs] : rs \in SeqUpTo(RowsL, MaxRowsL)}
                  \cup {[ok |-> FALSE, rows |-> <<>>]}
    /\ clock = 0
    /\ cache = NoEntry
    /\ reads = 0
    /\ heap = <<>>
    /\ pc = "off"
    /\ env = NoEnv
    /\ sel = NoSel
    /\ stats = NoStats
    /\ page = {}

CallLoad ==
    /\ call = NoCall
    /\ call' = [fn |-> "load_and_process_data"]
    /\ ret' = load_and_process_data(source)
    /\ UNCHANGED <<df, svars>>

\* the loaded table filtered with its full date range, all its locations
\* and all its parameters
CallFullFilter ==
    /\ call.fn = "load_and_process_data"
    /\ ~ret.raised
    /\ ValidDates(ret.table) # {}
    /\ df' = ret.table
    /\ call' = [fn |-> "filter_chain",
                start |-> min_date(ret.table), end |-> max_date(ret.table),
                locations |-> unique_locations(ret.table),
                parameters |-> PList(unique_parameters(ret.table))]
    /\ ret' = filter_chain(ret.table, min_date(ret.table), max_date(ret.table),
                           unique_locations(ret.table), PList(unique_parameters(ret.table)))
    /\ UNCHANGED svars

NextLoad == CallLoad \/ CallFullFilter

SpecLoad == InitLoad /\ [][NextLoad]_vars

-----------------------------------------------------------------------------
(* C6 *)

\* C6: a loaded table filtered with its full date range, all its
\* locations and all its parameters comes back with the same rows.
C6_FullFilterRoundTrip ==
    call.fn = "filter_chain" => ret = df

-----------------------------------------------------------------------------
(* Remaining operations used by the session script *)

RECURSIVE SortedSeq(_)
\* the elements of a set of integers in ascending order
SortedSeq(S) ==
    IF S = {} THEN <<>>
    ELSE LET m == CHOOSE x \in S : \A y \in S : x <= y
         IN  <<m>> \o SortedSeq(S \ {m})

RECURSIVE Concat(_)
Concat(ss) == IF ss = <<>> THEN <<>> ELSE Head(ss) \o Concat(Tail(ss))

\* groupby(['date', 'location'])['value'].mean().reset_index(): groups in
\* ascending (date, location) order, rows with a NaT key dropped
aggregate_data_for_time_series(d, parameter) ==
    LET param_df == param_rows(d, parameter)
        dates == SortedSeq({param_df[i].date : i \in DOMAIN param_df} \ {NaT})
        vals(t, l) == column_value(SelectSeq(param_df, LAMBDA r : r.date = t /\ r.location = l))
        at(t) == LET ls == SelectSeq(LocOrder, LAMBDA l : vals(t, l) # <<>>)
                 IN  [k \in DOMAIN ls |-> [date |-> t, location |-> ls[k], value |-> mean(vals(t, ls[k]))]]
    IN  Concat([k \in DOMAIN dates |-> at(dates[k])])

\* utils.py calculate_aqi_stats
calculate_aqi_stats(d, parameter) ==
    LET param_df == param_rows(d, parameter)
        param_info == get_parameter_info(parameter, Table(AllColumns, d))
    IN  [shown |-> TRUE,
         mean_value |-> mean(column_value(param_df)),
         max_value |-> max(column_value(param_df)),
         min_value |-> min(column_value(param_df)),
         unit |-> param_info.unit,
         location_count |-> Cardinality(unique_locations(param_df))]

\* app.py: geo_df.groupby(['location', 'lat', 'lon'])['value'].mean().reset_index()
map_groupby(d) ==
    LET lats == SortedSeq({d[i].lat : i \in DOMAIN d})
        lons == SortedSeq({d[i].lon : i \in DOMAIN d})
        vals(l, la, lo) == column_value(SelectSeq(d, LAMBDA r : r.location = l /\ r.lat = la /\ r.lon = lo))
        keys == Concat([a \in DOMAIN LocOrder |->
                    Concat([b \in DOMAIN lats |->
                        LET ok == SelectSeq(lons, LAMBDA lo : vals(LocOrder[a], lats[b], lo) # <<>>)
                        IN  [c \in DOMAIN ok |-> <<LocOrder[a], lats[b], ok[c]>>]])])
    IN  [k \in DOMAIN keys |->
            [location |-> keys[k][1], lat |-> keys[k][2], lon |-> keys[k][3],
             value |-> mean(vals(keys[k][1], keys[k][2], keys[k][3]))]]

\* exact arithmetic on fractions [num, den], den > 0
RECURSIVE Gcd(_, _)
Gcd(a, b) == IF b = 0 THEN a ELSE Gcd(b, a % b)
Abs(x) == IF x < 0 THEN -x ELSE x
Frac(n, d) == LET g == Gcd(Abs(n), d) IN [num |-> n \div g, den |-> d \div g]
FracLe(a, b) == a.num * b.den <= b.num * a.den
FracSub(a, b) == Frac(a.num * b.den - b.num * a.den, a.den * b.den)
FracMin(vs) == CHOOSE v \in Range(vs) : \A w \in Range(vs) : FracLe(v, w)
FracMax(vs) == CHOOSE v \in Range(vs) : \A w \in Range(vs) : FracLe(w, v)

\* (value - min_value) / (max_value - min_value), for max_value > min_value
min_max_normalize(v, lo, hi) ==
    LET a == FracSub(v, lo)
        b == FracSub(hi, lo)
    IN  Frac(a.num * b.den, a.den * b.num)

\* the float NaN that 0.0 / 0.0 evaluates to, as the fraction 0/0
FracNaN == [num |-> 0, den |-> 0]

\* 5000 * (normalized + 0.5); with max_value = min_value the division is
\* 0/0, which raises nothing and gives NaN
point_size(v, lo, hi) ==
    IF FracSub(hi, lo).num = 0 THEN FracNaN
    ELSE LET n == min_max_normalize(v, lo, hi)
         IN  Frac(5000 * (2 * n.num + n.den), 2 * n.den)

\* int(x * 255) for a fraction 0 <= x <= 1
int_times_255(x) == (255 * x.num) \div x.den

\* the substring tests 'pm' in parameter or 'co' in ... or 'o3' in parameter,
\* for the identifiers of the model
has_pollutant_substring(parameter) ==
    parameter \in {"pm25", "pm1", "pm10", "co", "no", "no2", "o3", "so2",
                   "unknown_param", "nox", "pm2_5B"}

\* visualization.py create_map_visualization: the columns it assigns on
\* the table it is given
map_columns(d, parameter) ==
    LET vs == [i \in DOMAIN d |-> d[i].value]
        lo == FracMin(vs)
        hi == FracMax(vs)
        half == [num |-> 1, den |-> 2]
        one == [num |-> 1, den |-> 1]
        norm(i) == IF ~FracLe(hi, lo) THEN min_max_normalize(vs[i], lo, hi) ELSE half
    IN  [i \in DOMAIN d |->
            [location |-> d[i].location, lat |-> d[i].lat, lon |-> d[i].lon,
             value |-> d[i].value,
             point_size |-> point_size(vs[i], lo, hi),
             color_r |-> int_times_255(norm(i)),
             color_g |-> IF has_pollutant_substring(parameter)
                         THEN int_times_255(FracSub(one, norm(i)))
                         ELSE int_times_255(norm(i)),
             color_b |-> IF has_pollutant_substring(parameter)
                         THEN 50
                         ELSE int_times_255(FracSub(one, norm(i)))]]

-----------------------------------------------------------------------------
(* app.py : the session.  Every interaction reruns the script from the   *)
(* top; between two runs time passes and the CSV file may be rewritten.  *)

TTL == 3600
MaxClock == 7200
MaxRowsS == 2

\* the records of day 0 carry the value 10 and those of day 1 the value 20
RowsS == {Row(TsCell(d, 0), l, 1, 1, p, 10 * (d + 1), "u") :
             d \in 0..1, l \in Locations, p \in ParamsF}
SourcesS == SeqUpTo(RowsS, MaxRowsS) \ {<<>>}

\* faulty variant: the entry never expires
is_fresh_never_expires_m(entry, now) == entry.present

\* st.cache_data(ttl=3600): the entry is served while now < stored_at + ttl
is_fresh(entry, now) == entry.present /\ now < entry.stored_at + TTL

Init ==
    /\ df = NoneTable
    /\ call = NoCall
    /\ ret = <<>>
    /\ source \in {[ok |-> TRUE, rows |-> rs] : rs \in SourcesS}
    /\ clock = 0
    /\ cache = NoEntry
    /\ reads = 0
    /\ heap = <<>>
    /\ pc = "start"
    /\ env = NoEnv
    /\ sel = NoSel
    /\ stats = NoStats
    /\ page = {}

Between == pc \in {"start", "end"}

\* time passes between two runs
Tick ==
    /\ Between
    /\ clock + TTL \div 2 <= MaxClock
    /\ clock' = clock + TTL \div 2
    /\ UNCHANGED <<fvars, source, cache, reads, heap, pc, env, sel, stats, page>>

\* the CSV file is removed or put back
EditSource ==
    /\ Between
    /\ source' = [source EXCEPT !.ok = ~source.ok]
    /\ UNCHANGED <<fvars, clock, cache, reads, heap, pc, env, sel, stats, page>>

\* line 43, df = load_data(): served from the cache entry while it is
\* fresh, otherwise the file is read and the entry replaced; the caller
\* gets its own copy of the cached value
LoadData ==
    /\ Between
    /\ LET fresh == is_fresh(cache, clock)
           value == IF fresh THEN cache.value ELSE load_data(source)
       IN  /\ cache' = IF fresh THEN cache
                       ELSE [present |-> TRUE, value |-> value, stored_at |-> clock]
           /\ reads' = IF fresh THEN reads ELSE reads + 1
           /\ heap' = <<value>>
           /\ env' = [NoEnv EXCEPT !.df = 1]
    /\ pc' = "loaded"
    /\ sel' = NoSel
    /\ stats' = NoStats
    /\ page' = {}
    /\ UNCHANGED <<fvars, source, clock>>

\* lines 45-49
CheckLoaded ==
    /\ pc = "loaded"
    /\ IF heap[env.df].isnone
       THEN /\ page' = page \cup {"load_error"}
            /\ pc' = "end"
       ELSE /\ page' = page
            /\ pc' = "sidebar"
    /\ UNCHANGED <<fvars, source, clock, cache, reads, heap, env, sel, stats>>

\* lines 52-101: the widgets offer the dates of the table, its locations
\* and its parameters; an inverted range stops the run
Sidebar ==
    /\ pc = "sidebar"
    /\ LET d == heap[env.df].rows
           all_locations == unique_locations(d)
           all_parameters == unique_parameters(d)
       IN  \E s \in min_date(d)..max_date(d), e \in min_date(d)..max_date(d),
              ls \in SUBSET all_locations, p \in all_parameters :
              \E c \in IF all_parameters \ {p} = {} THEN {""} ELSE all_parameters \ {p} :
                  /\ sel' = [start_date |-> s, end_date |-> e, selected_locations |-> ls,
                             selected_parameter |-> p, correlation_parameter |-> c]
                  /\ IF s > e
                     THEN /\ page' = page \cup {"range_error"}
                          /\ pc' = "end"
                     ELSE /\ page' = page
                          /\ pc' = "copy"
    /\ UNCHANGED <<fvars, source, clock, cache, reads, heap, env, stats>>

\* line 104: filtered_df = df.copy()
CopyDf ==
    /\ pc = "copy"
    /\ heap' = Append(heap, heap[env.df])
    /\ env' = [env EXCEPT !.filtered_df = Len(heap) + 1]
    /\ pc' = "by_date"
    /\ UNCHANGED <<fvars, source, clock, cache, reads, sel, stats, page>>

\* line 105: boolean-mask indexing builds a new table
FilterDate ==
    /\ pc = "by_date"
    /\ heap' = Append(heap, Table(AllColumns,
                   filter_data_by_date_range(heap[env.filtered_df].rows,
                                             ADate(sel.start_date), ADate(sel.end_date))))
    /\ env' = [env EXCEPT !.filtered_df = Len(heap) + 1]
    /\ pc' = "by_location"
    /\ UNCHANGED <<fvars, source, clock, cache, reads, sel, stats, page>>

\* line 106: with no location selected the function returns its argument
FilterLocation ==
    /\ pc = "by_location"
    /\ IF sel.selected_locations = {}
       THEN UNCHANGED <<heap, env>>
       ELSE /\ heap' = Append(heap, Table(AllColumns,
                           filter_data_by_location(heap[env.filtered_df].rows,
                                                   sel.selected_locations)))
            /\ env' = [env EXCEPT !.filtered_df = Len(heap) + 1]
    /\ pc' = "by_parameter"
    /\ UNCHANGED <<fvars, source, clock, cache, reads, sel, stats, page>>

\* lines 107-108
FilterParameter ==
    /\ pc = "by_parameter"
    /\ heap' = Append(heap, Table(AllColumns,
                   filter_data_by_parameter(heap[env.filtered_df].rows,
                                            PStr(sel.selected_parameter))))
    /\ env' = [env EXCEPT !.parameter_filtered_df = Len(heap) + 1]
    /\ pc' = "check_empty"
    /\ UNCHANGED <<fvars, source, clock, cache, reads, sel, stats, page>>

\* lines 111-113
CheckEmpty ==
    /\ pc = "check_empty"
    /\ IF heap[env.parameter_filtered_df].rows = <<>>
       THEN /\ page' = page \cup {"no_data_warning"}
            /\ pc' = "end"
       ELSE /\ page' = page
            /\ pc' = "stats"
    /\ UNCHANGED <<fvars, source, clock, cache, reads, heap, env, sel, stats>>

\* lines 116-130
KeyStatistics ==
    /\ pc = "stats"
    /\ stats' = calculate_aqi_stats(heap[env.parameter_filtered_df].rows, sel.selected_parameter)
    /\ page' = page \cup {"statistics"}
    /\ pc' = "trends"
    /\ UNCHANGED <<fvars, source, clock, cache, reads, heap, env, sel>>

\* lines 136-143: create_time_series_chart keeps its aggregate in the figure
TabTrends ==
    /\ pc = "trends"
    /\ heap' = Append(heap, Table({"date", "location", "value"},
                   aggregate_data_for_time_series(heap[env.parameter_filtered_df].rows,
                                                  sel.selected_parameter)))
    /\ page' = page \cup {"time_series_chart"}
    /\ pc' = "comparison"
    /\ UNCHANGED <<fvars, source, clock, cache, reads, env, sel, stats>>

\* lines 145-148: create_bar_chart sorts its aggregate by descending mean;
\* the order of equal means is not fixed by sort_values
TabComparison ==
    /\ pc = "comparison"
    /\ LET comp_data == aggregate_data_for_comparison(heap[env.parameter_filtered_df].rows,
                                                      sel.selected_parameter)
       IN  \E perm \in [DOMAIN comp_data -> DOMAIN comp_data] :
              /\ \A i, j \in DOMAIN comp_data : i # j => perm[i] # perm[j]
              /\ \A i, j \in DOMAIN comp_data :
                    i < j => FracLe(comp_data[perm[j]].mean, comp_data[perm[i]].mean)
              /\ heap' = Append(Append(heap, Table({"location", "mean", "min", "max"}, comp_data)),
                                Table({"location", "mean", "min", "max"},
                                      [i \in DOMAIN comp_data |-> comp_data[perm[i]]]))
    /\ page' = page \cup {"bar_chart"}
    /\ pc' = "correlation"
    /\ UNCHANGED <<fvars, source, clock, cache, reads, env, sel, stats>>

\* lines 150-168
TabCorrelation ==
    /\ pc = "correlation"
    /\ IF sel.correlation_parameter # ""
       THEN LET correlation_df ==
                    filter_data_by_parameter(heap[env.filtered_df].rows,
                        PList({sel.selected_parameter, sel.correlation_parameter}))
            IN  /\ env' = [env EXCEPT !.correlation_df = Len(heap) + 1]
                /\ IF correlation_df # <<>>
                   THEN /\ heap' = Append(Append(heap, Table(AllColumns, correlation_df)),
                                       Table({"date", "location", "x", "y"},
                                             prepare_correlation_data(correlation_df,
                                                 sel.selected_parameter, sel.correlation_parameter)))
                        /\ page' = page \cup {"scatter_plot"}
                   ELSE /\ heap' = Append(heap, Table(AllColumns, correlation_df))
                        /\ page' = page \cup {"correlation_warning"}
       ELSE /\ page' = page \cup {"correlation_info"}
            /\ UNCHANGED <<heap, env>>
    /\ pc' = "map_data"
    /\ UNCHANGED <<fvars, source, clock, cache, reads, sel, stats>>

\* lines 173-177: geo_df is a copy, map_df the per-location means
TabMapData ==
    /\ pc = "map_data"
    /\ heap' = Append(Append(heap, heap[env.parameter_filtered_df]),
                      Table({"location", "lat", "lon", "value"},
                            map_groupby(heap[env.parameter_filtered_df].rows)))
    /\ env' = [env EXCEPT !.map_df = Len(heap) + 2]
    /\ pc' = "map"
    /\ UNCHANGED <<fvars, source, clock, cache, reads, sel, stats, page>>

\* lines 180-181: create_map_visualization assigns point_size and the
\* colour columns on map_df itself
TabMap ==
    /\ pc = "map"
    /\ heap' = [heap EXCEPT ![env.map_df] =
                   Table(@.columns \cup {"point_size", "color_r", "color_g", "color_b"},
                         map_columns(@.rows, sel.selected_parameter))]
    /\ page' = page \cup {"map"}
    /\ pc' = "end"
    /\ UNCHANGED <<fvars, source, clock, cache, reads, env, sel, stats>>

Next ==
    \/ Tick \/ EditSource \/ LoadData \/ CheckLoaded \/ Sidebar
    \/ CopyDf \/ FilterDate \/ FilterLocation \/ FilterParameter \/ CheckEmpty
    \/ KeyStatistics \/ TabTrends \/ TabComparison \/ TabCorrelation
    \/ TabMapData \/ TabMap

Spec == Init /\ [][Next]_vars

-----------------------------------------------------------------------------
(* C8 *)

\* C8: no stage of a run modifies a table that exists already (the cached
\* table and the views of earlier stages stay as they are), and the three
\* filter stages bind their result to a new table, not to their input.
C8_NoInPlaceMutation ==
    [][~Between =>
          /\ cache' = cache
          /\ \A id \in DOMAIN heap : id \in DOMAIN heap' /\ heap'[id] = heap[id]
          /\ pc \in {"by_date", "by_location"} => env'.filtered_df \notin DOMAIN heap
          /\ pc = "by_parameter" => env'.parameter_filtered_df \notin DOMAIN heap]_vars

-----------------------------------------------------------------------------
(* C10 *)

\* C10: the load cache is one entry; a request made while the entry is
\* younger than 3600 s gets the cached table and the source is not read,
\* any other request reads the source and replaces the entry, and nothing
\* but a request touches the entry.
C10_CacheWindow ==
    [][/\ pc' = "loaded" =>
             IF cache.present /\ clock - cache.stored_at < 3600
             THEN /\ reads' = reads
                  /\ cache' = cache
                  /\ heap'[1] = cache.value
             ELSE /\ reads' = reads + 1
                  /\ cache' = [present |-> TRUE, value |-> load_data(source), stored_at |-> clock]
                  /\ heap'[1] = load_data(source)
       /\ pc' # "loaded" => (cache' = cache /\ reads' = reads)]_vars

\* a request served from the entry stored by the reload that followed the
\* first expiry, although the file has been removed since
C10_Witness ==
    /\ pc = "loaded"
    /\ reads = 2
    /\ cache.stored_at >= TTL
    /\ clock > cache.stored_at
    /\ ~source.ok
    /\ ~heap[1].isnone

-----------------------------------------------------------------------------
(* C11 *)

\* the table create_scatter_plot draws: the join built from correlation_df
CorrData == heap[env.correlation_df + 1]

\* C11: a view whose filtering left no rows shows its warning and no
\* statistics, aggregation or chart stage runs on an empty table, for the
\* views of the selected parameter and for the correlation view.
C11_EmptyViewPlaceholder ==
    /\ page \cap {"statistics", "time_series_chart", "bar_chart", "map"} # {}
          => heap[env.parameter_filtered_df].rows # <<>>
    /\ (pc = "end" /\ env.parameter_filtered_df # 0
        /\ heap[env.parameter_filtered_df].rows = <<>>)
          => "no_data_warning" \in page
    /\ "scatter_plot" \in page => CorrData.rows # <<>>

-----------------------------------------------------------------------------
(* C12 *)

IsLoadReturn == call.fn = "load_and_process_data" /\ ~ret.raised

\* the positions of the source records with value, lat and lon all present
PresentIdx(rs) == {i \in DOMAIN rs : rs[i].value # NaNf /\ rs[i].lat # NaNf /\ rs[i].lon # NaNf}

\* row is the source record rec with its date cell parsed, all else as read
IsParsed(row, rec) ==
    /\ row.date = (IF rec.date.kind = "na" THEN NaT ELSE rec.date.day * TicksPerDay + rec.date.tick)
    /\ \A f \in AllColumns \ {"date"} : row[f] = rec[f]

\* C12: load_and_process_data returns exactly the source records in which
\* value, lat and lon are all present, in order: the others are dropped
\* and no returned record misses any of the three.
C12_LoadDropsMissing ==
    IsLoadReturn =>
        LET K == PresentIdx(source.rows)
        IN  /\ Len(ret.table) = Cardinality(K)
            /\ \A i \in K : IsParsed(ret.table[Cardinality({j \in K : j <= i})], source.rows[i])
            /\ \A k \in DOMAIN ret.table :
                  /\ ret.table[k].value # NaNf
                  /\ ret.table[k].lat # NaNf
                  /\ ret.table[k].lon # NaNf

\* one record without lat is dropped, the record after it is kept
C12_Witness ==
    /\ IsLoadReturn
    /\ Len(source.rows) = 2
    /\ source.rows[1].lat = NaNf
    /\ PresentIdx(source.rows) = {2}
    /\ Len(ret.table) = 1
    /\ IsParsed(ret.table[1], source.rows[2])

-----------------------------------------------------------------------------
(* C13 *)

IsLocationCall == call.fn = "filter_data_by_location"

\* C13: filter_data_by_location returns the whole table when locations is
\* empty, and otherwise exactly the rows whose location is in locations.
C13_LocationFilter ==
    IsLocationCall =>
        IF call.locations = {}
        THEN ret = df
        ELSE IsRestriction(ret, df, {i \in DOMAIN df : df[i].location \in call.locations})

\* the empty selection keeps both rows of a table with two locations
C13_Witness ==
    /\ IsLocationCall
    /\ Len(df) = 2
    /\ df[1].location # df[2].location
    /\ call.locations = {}
    /\ Len(ret) = 2

-----------------------------------------------------------------------------
(* The three filters applied one after the other, in every order *)

Orders == {<<"date", "location", "parameter">>, <<"date", "parameter", "location">>,
           <<"location", "date", "parameter">>, <<"location", "parameter", "date">>,
           <<"parameter", "date", "location">>, <<"parameter", "location", "date">>}

apply_filter(which, d, a) ==
    IF which = "date" THEN filter_data_by_date_range(d, a.start, a.end)
    ELSE IF which = "location" THEN filter_data_by_location(d, a.locations)
    ELSE filter_data_by_parameter(d, a.parameters)

apply_in_order(o, d, a) == apply_filter(o[3], apply_filter(o[2], apply_filter(o[1], d, a), a), a)

\* records at the last tick of day 0, at midnight of day MaxDay, or undated
StampsChain == {TicksPerDay - 1, MaxDay * TicksPerDay, NaT}
RowsChain == {Row(d, l, 1, 1, p, 10, "u") : d \in StampsChain, l \in Locations, p \in ParamsF}

InitChain ==
    /\ df \in SeqUpTo(RowsChain, MaxRowsF)
    /\ call = NoCall
    /\ ret = <<>>
    /\ IdleSession

\* ret holds the result of each of the six orders
CallFilterChain ==
    /\ call = NoCall
    /\ \E s \in 0..MaxDay, e \in 0..MaxDay, ls \in SUBSET Locations, ps \in SUBSET ParamsF :
          LET a == [start |-> ADate(s), end |-> ADate(e), locations |-> ls, parameters |-> PList(ps)]
          IN  /\ call' = [fn |-> "filter_orders", args |-> a]
              /\ ret' = [o \in Orders |-> apply_in_order(o, df, a)]
              /\ UNCHANGED <<df, svars>>

NextChain == CallFilterChain

SpecChain == InitChain /\ [][NextChain]_vars

-----------------------------------------------------------------------------
(* C14 *)

IsChainCall == call.fn = "filter_orders"

\* C14: the date-range, location and parameter filters commute: the six
\* orders of applying them give the same rows.
C14_FiltersCommute ==
    IsChainCall => \A o1, o2 \in Orders : ret[o1] = ret[o2]

\* each filter alone would remove a different row, and one row passes all
C14_Witness ==
    /\ IsChainCall
    /\ Len(df) = 2
    /\ call.args.locations # {}
    /\ \A o \in Orders : Len(ret[o]) = 1
    /\ Len(filter_data_by_location(df, call.args.locations)) = 1
    /\ Len(filter_data_by_parameter(df, call.args.parameters)) = 1
    /\ Len(filter_data_by_date_range(df, call.args.start, call.args.end)) = 1

-----------------------------------------------------------------------------
(* C15 *)

\* C15: on every non-empty table given to create_map_visualization, a
\* single location or all-equal values included, every point_size is a
\* defined number between 2500 and 7500.
C15_PointSizeDefined ==
    "map" \in page =>
        \A i \in DOMAIN heap[env.map_df].rows :
            LET size == heap[env.map_df].rows[i].point_size
            IN  /\ size.den > 0
                /\ 2500 * size.den <= size.num
                /\ size.num <= 7500 * size.den

=============================================================================
